---- MODULE Spec2Model ----
(***************************************************************************)
(* Model of the Pooler thread pool (src/pooler.h) and of the way its       *)
(* callers drive it (src/main.cpp).  Every statement of threadAction, run, *)
(* stop and their helpers that touches shared state is one step of the     *)
(* thread executing it; the label of a step is the source line it models.  *)
(* std::mutex is an owner field, std::condition_variable is the set of     *)
(* threads blocked in wait(); wait(lock, pred) is the loop                 *)
(* while (!pred()) wait(lock), and a blocked thread may wake spuriously.   *)
(***************************************************************************)
EXTENDS Integers, FiniteSets, Sequences, TLC

\* Largest thread count passed to the constructor.
MaxThreads == 2
\* Largest number of run() calls a coordinator makes.
MaxRounds == 2

VARIABLES
    THREAD_COUNT,      \* const _THREAD_COUNT
    threadsSize,       \* _threads.size()
    threadsComplete,   \* atomic _threadsComplete
    threadsWaiting,    \* atomic _threadsWaiting
    actionLock,        \* owner of _actionLock
    waitLock,          \* owner of _waitLock
    completeLock,      \* owner of _completeLock
    actionCv,          \* threads blocked in _actionCv.wait
    waitCv,            \* threads blocked in _waitCv.wait
    completeCv,        \* threads blocked in _completeCv.wait
    action,            \* _action
    threadCallback,    \* _threadCallback
    threadParam,       \* _threadParam
    pcw,               \* position of every worker thread in threadAction
    wcb,               \* callee loaded by a worker for the call of line 229
    wparam,            \* argument loaded by a worker for the call of line 229
    pcc,               \* position of every coordinator thread
    op,                \* member function a coordinator is executing
    callback,          \* run's argument callback
    newParam,          \* run's argument newParam
    joinI,             \* loop index i of stop
    started,           \* number of run calls begun
    returned,          \* number of run calls that returned
    calls,             \* per worker, number of callback invocations
    stopsReturned,     \* number of stop calls that returned
    late,              \* per coordinator: the call was begun after a stop returned
    result,            \* per coordinator: how the last call ended
    callsAtStop        \* calls, as it was when stop was last called

poolVars == <<THREAD_COUNT, threadsSize, threadsComplete, threadsWaiting,
              actionLock, waitLock, completeLock, actionCv, waitCv,
              completeCv, action, threadCallback, threadParam>>
workerVars == <<pcw, wcb, wparam>>
coordVars == <<pcc, op, callback, newParam, joinI>>
histVars == <<started, returned, calls, stopsReturned, late, result, callsAtStop>>
vars == <<poolVars, workerVars, coordVars, histVars>>

\* enum Action
Action == {"RUN", "WAIT", "STOP"}

\* An empty std::function, and the two functions callers pass.
Empty == "empty"
Callbacks == {"myFunc", "lambda"}
\* nullptr, and the address of caller data.
Nullptr == "nullptr"
Params == {Nullptr, "inputData"}

\* Pooler::threadid_t values a thread of the pool can have; the threads
\* that exist are those of Workers, the others stay at "none".
ThreadIds == 0 .. (MaxThreads - 1)
Workers == 0 .. (THREAD_COUNT - 1)
Coordinators == {1, 2}
W(w) == <<"worker", w>>
C(c) == <<"coord", c>>
Free == <<"free", 0>>

\* The predicates of the four condition waits.
\* (variant: the ready wait ends at the first parked worker)
WaitPredFirst == threadsWaiting >= 1
WaitPred == threadsWaiting = THREAD_COUNT
\* (variant: a worker does not wait for a command)
RunPredAlways == TRUE
RunPred == action # "WAIT"
\* (variant: a worker does not wait for the return to WAIT)
IdlePredAlways == TRUE
IdlePred == action = "WAIT"
\* (variant: the completion wait ends at the first completion)
CompletePredFirst == threadsComplete >= 1
CompletePred == threadsComplete = THREAD_COUNT
\* The test of line 223.
\* (variant: STOP is not told from RUN)
StopCheckNever == FALSE
StopCheck == action = "STOP"

\* Positions of a worker between loading the callee and returning from it.
InCallback == {"w229", "w229p", "w229c", "exec"}

----------------------------------------------------------------------------
\* State after Pooler(threadCount): resetThreadLoop has run and the threads
\* are created but none has executed a statement.  _threadCallback is an
\* empty std::function; _threadParam is not initialised by the constructor.
Pooler(threadCount) ==
    /\ THREAD_COUNT = threadCount
    /\ threadsSize = THREAD_COUNT
    /\ threadsComplete = 0
    /\ threadsWaiting = 0
    /\ actionLock = Free /\ waitLock = Free /\ completeLock = Free
    /\ actionCv = {} /\ waitCv = {} /\ completeCv = {}
    /\ action = "WAIT"
    /\ threadCallback = Empty
    /\ threadParam \in Params
    /\ pcw = [w \in ThreadIds |-> IF w \in Workers THEN "w211" ELSE "none"]
    /\ wcb = [w \in ThreadIds |-> Empty]
    /\ wparam = [w \in ThreadIds |-> Nullptr]
    /\ pcc = [c \in Coordinators |-> "idle"]
    /\ op = [c \in Coordinators |-> "none"]
    /\ callback = [c \in Coordinators |-> Empty]
    /\ newParam = [c \in Coordinators |-> Nullptr]
    /\ joinI = [c \in Coordinators |-> 0]
    /\ started = 0
    /\ returned = 0
    /\ calls = [w \in ThreadIds |-> 0]
    /\ stopsReturned = 0
    /\ late = [c \in Coordinators |-> FALSE]
    /\ result = [c \in Coordinators |-> "none"]
    /\ callsAtStop = [w \in ThreadIds |-> 0]

\* Pools of at least one thread, as the interface requires.
Init == \E n \in 1 .. MaxThreads : Pooler(n)

----------------------------------------------------------------------------
\* threadAction

WGoto(w, from, to) == pcw[w] = from /\ pcw' = [pcw EXCEPT ![w] = to]

\* 211: std::unique_lock lock(_actionLock)
W211(w) ==
    /\ WGoto(w, "w211", "w214")
    /\ actionLock = Free
    /\ actionLock' = W(w)
    /\ UNCHANGED <<THREAD_COUNT, threadsSize, threadsComplete, threadsWaiting,
                   waitLock, completeLock, actionCv, waitCv, completeCv,
                   action, threadCallback, threadParam>>
    /\ UNCHANGED <<wcb, wparam, coordVars, histVars>>

\* 214: std::lock_guard waitLock(_waitLock)
W214(w) ==
    /\ WGoto(w, "w214", "w215")
    /\ waitLock = Free
    /\ waitLock' = W(w)
    /\ UNCHANGED <<THREAD_COUNT, threadsSize, threadsComplete, threadsWaiting,
                   actionLock, completeLock, actionCv, waitCv, completeCv,
                   action, threadCallback, threadParam>>
    /\ UNCHANGED <<wcb, wparam, coordVars, histVars>>

\* 215: _threadsWaiting++
W215(w) ==
    /\ WGoto(w, "w215", "w216")
    /\ threadsWaiting' = threadsWaiting + 1
    /\ UNCHANGED <<THREAD_COUNT, threadsSize, threadsComplete,
                   actionLock, waitLock, completeLock, actionCv, waitCv,
                   completeCv, action, threadCallback, threadParam>>
    /\ UNCHANGED <<wcb, wparam, coordVars, histVars>>

\* 216: end of the scope of waitLock
W216(w) ==
    /\ WGoto(w, "w216", "w217")
    /\ waitLock' = Free
    /\ UNCHANGED <<THREAD_COUNT, threadsSize, threadsComplete, threadsWaiting,
                   actionLock, completeLock, actionCv, waitCv, completeCv,
                   action, threadCallback, threadParam>>
    /\ UNCHANGED <<wcb, wparam, coordVars, histVars>>

\* 217: _waitCv.notify_all()
W217(w) ==
    /\ WGoto(w, "w217", "w221")
    /\ waitCv' = {}
    /\ UNCHANGED <<THREAD_COUNT, threadsSize, threadsComplete, threadsWaiting,
                   actionLock, waitLock, completeLock, actionCv, completeCv,
                   action, threadCallback, threadParam>>
    /\ UNCHANGED <<wcb, wparam, coordVars, histVars>>

\* (variant: the worker goes on without waiting for a command)
W221NoWait(w) ==
    /\ WGoto(w, "w221", "w223")
    /\ UNCHANGED <<poolVars, wcb, wparam, coordVars, histVars>>

\* 221: _actionCv.wait(lock, action != WAIT), the test of the predicate with
\* the lock held; when it fails the thread releases the lock and blocks.
W221(w) ==
    /\ pcw[w] = "w221"
    /\ IF RunPred
          THEN /\ pcw' = [pcw EXCEPT ![w] = "w223"]
               /\ UNCHANGED <<actionLock, actionCv>>
          ELSE /\ pcw' = [pcw EXCEPT ![w] = "w221b"]
               /\ actionLock' = Free
               /\ actionCv' = actionCv \cup {W(w)}
    /\ UNCHANGED <<THREAD_COUNT, threadsSize, threadsComplete, threadsWaiting,
                   waitLock, completeLock, waitCv, completeCv,
                   action, threadCallback, threadParam>>
    /\ UNCHANGED <<wcb, wparam, coordVars, histVars>>

\* 221: a woken thread takes the lock again and tests the predicate again.
W221wake(w) ==
    /\ WGoto(w, "w221b", "w221")
    /\ W(w) \notin actionCv
    /\ actionLock = Free
    /\ actionLock' = W(w)
    /\ UNCHANGED <<THREAD_COUNT, threadsSize, threadsComplete, threadsWaiting,
                   waitLock, completeLock, actionCv, waitCv, completeCv,
                   action, threadCallback, threadParam>>
    /\ UNCHANGED <<wcb, wparam, coordVars, histVars>>

\* (variant: the callback is called inside the scope of lock)
W223Hold(w) ==
    /\ pcw[w] = "w223"
    /\ pcw' = [pcw EXCEPT ![w] = IF StopCheck THEN "done" ELSE "w229"]
    /\ actionLock' = IF StopCheck THEN Free ELSE actionLock
    /\ UNCHANGED <<THREAD_COUNT, threadsSize, threadsComplete, threadsWaiting,
                   waitLock, completeLock, actionCv, waitCv, completeCv,
                   action, threadCallback, threadParam>>
    /\ UNCHANGED <<wcb, wparam, coordVars, histVars>>

\* 223-226: if (_action == STOP) break; both paths leave the scope of lock.
\* After break the thread function returns.
W223(w) ==
    /\ pcw[w] = "w223"
    /\ pcw' = [pcw EXCEPT ![w] = IF StopCheck THEN "done" ELSE "w229"]
    /\ actionLock' = Free
    /\ UNCHANGED <<THREAD_COUNT, threadsSize, threadsComplete, threadsWaiting,
                   waitLock, completeLock, actionCv, waitCv, completeCv,
                   action, threadCallback, threadParam>>
    /\ UNCHANGED <<wcb, wparam, coordVars, histVars>>

\* 229: load of _threadCallback, the callee
W229(w) ==
    /\ WGoto(w, "w229", "w229p")
    /\ wcb' = [wcb EXCEPT ![w] = threadCallback]
    /\ UNCHANGED <<poolVars, wparam, coordVars, histVars>>

\* 229: load of _threadParam, the argument
W229p(w) ==
    /\ WGoto(w, "w229p", "w229c")
    /\ wparam' = [wparam EXCEPT ![w] = threadParam]
    /\ UNCHANGED <<poolVars, wcb, coordVars, histVars>>

\* 229: std::function::operator().  An empty std::function throws
\* std::bad_function_call; nothing catches it in the thread function, so
\* std::terminate ends the process and with it every thread.
W229c(w) ==
    /\ pcw[w] = "w229c"
    /\ IF wcb[w] = Empty
          THEN /\ pcw' = [v \in ThreadIds |->
                           IF v \in Workers THEN "aborted" ELSE "none"]
               /\ pcc' = [c \in Coordinators |-> "aborted"]
               /\ UNCHANGED calls
          ELSE /\ pcw' = [pcw EXCEPT ![w] = "exec"]
               /\ calls' = [calls EXCEPT ![w] = @ + 1]
               /\ UNCHANGED pcc
    /\ UNCHANGED <<poolVars, wcb, wparam, op, callback, newParam, joinI>>
    /\ UNCHANGED <<started, returned, stopsReturned, late, result, callsAtStop>>

\* 229: the callback returns
WReturn(w) ==
    /\ WGoto(w, "exec", "w233")
    /\ wcb' = [wcb EXCEPT ![w] = Empty]
    /\ wparam' = [wparam EXCEPT ![w] = Nullptr]
    /\ UNCHANGED <<poolVars, coordVars, histVars>>

\* 233: std::unique_lock lock(_actionLock)
W233(w) ==
    /\ WGoto(w, "w233", "w236")
    /\ actionLock = Free
    /\ actionLock' = W(w)
    /\ UNCHANGED <<THREAD_COUNT, threadsSize, threadsComplete, threadsWaiting,
                   waitLock, completeLock, actionCv, waitCv, completeCv,
                   action, threadCallback, threadParam>>
    /\ UNCHANGED <<wcb, wparam, coordVars, histVars>>

\* 236: std::lock_guard completeLock(_completeLock)
W236(w) ==
    /\ WGoto(w, "w236", "w237")
    /\ completeLock = Free
    /\ completeLock' = W(w)
    /\ UNCHANGED <<THREAD_COUNT, threadsSize, threadsComplete, threadsWaiting,
                   actionLock, waitLock, actionCv, waitCv, completeCv,
                   action, threadCallback, threadParam>>
    /\ UNCHANGED <<wcb, wparam, coordVars, histVars>>

\* (variant: the completion is not counted)
W237Skip(w) ==
    /\ WGoto(w, "w237", "w238")
    /\ UNCHANGED <<poolVars, wcb, wparam, coordVars, histVars>>

\* 237: _threadsComplete++
W237(w) ==
    /\ WGoto(w, "w237", "w238")
    /\ threadsComplete' = threadsComplete + 1
    /\ UNCHANGED <<THREAD_COUNT, threadsSize, threadsWaiting,
                   actionLock, waitLock, completeLock, actionCv, waitCv,
                   completeCv, action, threadCallback, threadParam>>
    /\ UNCHANGED <<wcb, wparam, coordVars, histVars>>

\* (variant: completeLock lives to the end of the outer scope)
W238Hold(w) ==
    /\ WGoto(w, "w238", "w239")
    /\ UNCHANGED <<poolVars, wcb, wparam, coordVars, histVars>>

\* 238: end of the scope of completeLock
W238(w) ==
    /\ WGoto(w, "w238", "w239")
    /\ completeLock' = Free
    /\ UNCHANGED <<THREAD_COUNT, threadsSize, threadsComplete, threadsWaiting,
                   actionLock, waitLock, actionCv, waitCv, completeCv,
                   action, threadCallback, threadParam>>
    /\ UNCHANGED <<wcb, wparam, coordVars, histVars>>

\* (variant: the completion is not notified)
W239Silent(w) ==
    /\ WGoto(w, "w239", "w241")
    /\ UNCHANGED <<poolVars, wcb, wparam, coordVars, histVars>>

\* 239: _completeCv.notify_all()
W239(w) ==
    /\ WGoto(w, "w239", "w241")
    /\ completeCv' = {}
    /\ UNCHANGED <<THREAD_COUNT, threadsSize, threadsComplete, threadsWaiting,
                   actionLock, waitLock, completeLock, actionCv, waitCv,
                   action, threadCallback, threadParam>>
    /\ UNCHANGED <<wcb, wparam, coordVars, histVars>>

\* (variant: no wait for the return to WAIT after reporting completion)
W241NoWait(w) ==
    /\ WGoto(w, "w241", "w242")
    /\ UNCHANGED <<poolVars, wcb, wparam, coordVars, histVars>>

\* 241: _actionCv.wait(lock, action == WAIT)
W241(w) ==
    /\ pcw[w] = "w241"
    /\ IF IdlePred
          THEN /\ pcw' = [pcw EXCEPT ![w] = "w242"]
               /\ UNCHANGED <<actionLock, actionCv>>
          ELSE /\ pcw' = [pcw EXCEPT ![w] = "w241b"]
               /\ actionLock' = Free
               /\ actionCv' = actionCv \cup {W(w)}
    /\ UNCHANGED <<THREAD_COUNT, threadsSize, threadsComplete, threadsWaiting,
                   waitLock, completeLock, waitCv, completeCv,
                   action, threadCallback, threadParam>>
    /\ UNCHANGED <<wcb, wparam, coordVars, histVars>>

\* 241: a woken thread takes the lock again and tests the predicate again.
W241wake(w) ==
    /\ WGoto(w, "w241b", "w241")
    /\ W(w) \notin actionCv
    /\ actionLock = Free
    /\ actionLock' = W(w)
    /\ UNCHANGED <<THREAD_COUNT, threadsSize, threadsComplete, threadsWaiting,
                   waitLock, completeLock, actionCv, waitCv, completeCv,
                   action, threadCallback, threadParam>>
    /\ UNCHANGED <<wcb, wparam, coordVars, histVars>>

\* 242-243: end of the scope of lock, next iteration of while (true)
W242(w) ==
    /\ WGoto(w, "w242", "w211")
    /\ actionLock' = Free
    /\ UNCHANGED <<THREAD_COUNT, threadsSize, threadsComplete, threadsWaiting,
                   waitLock, completeLock, actionCv, waitCv, completeCv,
                   action, threadCallback, threadParam>>
    /\ UNCHANGED <<wcb, wparam, coordVars, histVars>>

threadAction(w) ==
    \/ W211(w) \/ W214(w) \/ W215(w) \/ W216(w) \/ W217(w)
    \/ W221(w) \/ W221wake(w) \/ W223(w)
    \/ W229(w) \/ W229p(w) \/ W229c(w) \/ WReturn(w)
    \/ W233(w) \/ W236(w) \/ W237(w) \/ W238(w) \/ W239(w)
    \/ W241(w) \/ W241wake(w) \/ W242(w)

----------------------------------------------------------------------------
\* The calls a coordinator thread makes.

CGoto(c, from, to) == pcc[c] = from /\ pcc' = [pcc EXCEPT ![c] = to]

\* 146: a thread calls run(callback, newParam)
CallRun(c, cb, p) ==
    /\ CGoto(c, "idle", "c105")
    /\ op' = [op EXCEPT ![c] = "run"]
    /\ callback' = [callback EXCEPT ![c] = cb]
    /\ newParam' = [newParam EXCEPT ![c] = p]
    /\ started' = started + 1
    /\ late' = [late EXCEPT ![c] = stopsReturned > 0]
    /\ result' = [result EXCEPT ![c] = "pending"]
    /\ UNCHANGED <<poolVars, workerVars, joinI, returned, calls,
                   stopsReturned, callsAtStop>>

\* 181: a thread calls stop()
CallStop(c) ==
    /\ CGoto(c, "idle", "c105")
    /\ op' = [op EXCEPT ![c] = "stop"]
    /\ late' = [late EXCEPT ![c] = stopsReturned > 0]
    /\ result' = [result EXCEPT ![c] = "pending"]
    /\ callsAtStop' = calls
    /\ UNCHANGED <<poolVars, workerVars, callback, newParam, joinI, started,
                   returned, calls, stopsReturned>>

----------------------------------------------------------------------------
\* waitForThreadsToFinish, called first by run (148) and by stop (182)

\* 105: std::unique_lock waitLock(_waitLock)
C105(c) ==
    /\ CGoto(c, "c105", "c107")
    /\ waitLock = Free
    /\ waitLock' = C(c)
    /\ UNCHANGED <<THREAD_COUNT, threadsSize, threadsComplete, threadsWaiting,
                   actionLock, completeLock, actionCv, waitCv, completeCv,
                   action, threadCallback, threadParam>>
    /\ UNCHANGED <<workerVars, op, callback, newParam, joinI, histVars>>

\* 107: if (_threadsWaiting != _THREAD_COUNT)
C107(c) ==
    /\ pcc[c] = "c107"
    /\ pcc' = [pcc EXCEPT ![c] = IF threadsWaiting # THREAD_COUNT
                                   THEN "c108" ELSE "c110"]
    /\ UNCHANGED <<poolVars, workerVars, op, callback, newParam, joinI,
                   histVars>>

\* 108: _waitCv.wait(waitLock, _threadsWaiting == _THREAD_COUNT)
C108(c) ==
    /\ pcc[c] = "c108"
    /\ IF WaitPred
          THEN /\ pcc' = [pcc EXCEPT ![c] = "c110"]
               /\ UNCHANGED <<waitLock, waitCv>>
          ELSE /\ pcc' = [pcc EXCEPT ![c] = "c108b"]
               /\ waitLock' = Free
               /\ waitCv' = waitCv \cup {C(c)}
    /\ UNCHANGED <<THREAD_COUNT, threadsSize, threadsComplete, threadsWaiting,
                   actionLock, completeLock, actionCv, completeCv,
                   action, threadCallback, threadParam>>
    /\ UNCHANGED <<workerVars, op, callback, newParam, joinI, histVars>>

\* 108: a woken thread takes the lock again and tests the predicate again.
C108wake(c) ==
    /\ CGoto(c, "c108b", "c108")
    /\ C(c) \notin waitCv
    /\ waitLock = Free
    /\ waitLock' = C(c)
    /\ UNCHANGED <<THREAD_COUNT, threadsSize, threadsComplete, threadsWaiting,
                   actionLock, completeLock, actionCv, waitCv, completeCv,
                   action, threadCallback, threadParam>>
    /\ UNCHANGED <<workerVars, op, callback, newParam, joinI, histVars>>

\* 110: end of the scope of waitLock, return to run or to stop
C110(c) ==
    /\ pcc[c] = "c110"
    /\ pcc' = [pcc EXCEPT ![c] = IF op[c] = "run" THEN "r152" ELSE "s186"]
    /\ waitLock' = Free
    /\ UNCHANGED <<THREAD_COUNT, threadsSize, threadsComplete, threadsWaiting,
                   actionLock, completeLock, actionCv, waitCv, completeCv,
                   action, threadCallback, threadParam>>
    /\ UNCHANGED <<workerVars, op, callback, newParam, joinI, histVars>>

waitForThreadsToFinish(c) ==
    C105(c) \/ C107(c) \/ C108(c) \/ C108wake(c) \/ C110(c)

----------------------------------------------------------------------------
\* run

\* 152: std::unique_lock completeLock(_completeLock)
R152(c) ==
    /\ CGoto(c, "r152", "r154")
    /\ completeLock = Free
    /\ completeLock' = C(c)
    /\ UNCHANGED <<THREAD_COUNT, threadsSize, threadsComplete, threadsWaiting,
                   actionLock, waitLock, actionCv, waitCv, completeCv,
                   action, threadCallback, threadParam>>
    /\ UNCHANGED <<workerVars, op, callback, newParam, joinI, histVars>>

\* (variant: _threadsWaiting is not reset before RUN)
R154Skip(c) ==
    /\ CGoto(c, "r154", "r159")
    /\ UNCHANGED <<poolVars, workerVars, op, callback, newParam, joinI,
                   histVars>>

\* 154: _threadsWaiting = 0
R154(c) ==
    /\ CGoto(c, "r154", "r159")
    /\ threadsWaiting' = 0
    /\ UNCHANGED <<THREAD_COUNT, threadsSize, threadsComplete,
                   actionLock, waitLock, completeLock, actionCv, waitCv,
                   completeCv, action, threadCallback, threadParam>>
    /\ UNCHANGED <<workerVars, op, callback, newParam, joinI, histVars>>

\* 159: std::lock_guard lock(_actionLock)
R159(c) ==
    /\ CGoto(c, "r159", "r160")
    /\ actionLock = Free
    /\ actionLock' = C(c)
    /\ UNCHANGED <<THREAD_COUNT, threadsSize, threadsComplete, threadsWaiting,
                   waitLock, completeLock, actionCv, waitCv, completeCv,
                   action, threadCallback, threadParam>>
    /\ UNCHANGED <<workerVars, op, callback, newParam, joinI, histVars>>

\* 160: _threadCallback = callback
R160(c) ==
    /\ CGoto(c, "r160", "r161")
    /\ threadCallback' = callback[c]
    /\ UNCHANGED <<THREAD_COUNT, threadsSize, threadsComplete, threadsWaiting,
                   actionLock, waitLock, completeLock, actionCv, waitCv,
                   completeCv, action, threadParam>>
    /\ UNCHANGED <<workerVars, op, callback, newParam, joinI, histVars>>

\* (variant: the param is not stored)
R161Skip(c) ==
    /\ CGoto(c, "r161", "r162")
    /\ UNCHANGED <<poolVars, workerVars, op, callback, newParam, joinI,
                   histVars>>

\* 161: _threadParam = newParam
R161(c) ==
    /\ CGoto(c, "r161", "r162")
    /\ threadParam' = newParam[c]
    /\ UNCHANGED <<THREAD_COUNT, threadsSize, threadsComplete, threadsWaiting,
                   actionLock, waitLock, completeLock, actionCv, waitCv,
                   completeCv, action, threadCallback>>
    /\ UNCHANGED <<workerVars, op, callback, newParam, joinI, histVars>>

\* 162: _action = RUN
R162(c) ==
    /\ CGoto(c, "r162", "r163")
    /\ action' = "RUN"
    /\ UNCHANGED <<THREAD_COUNT, threadsSize, threadsComplete, threadsWaiting,
                   actionLock, waitLock, completeLock, actionCv, waitCv,
                   completeCv, threadCallback, threadParam>>
    /\ UNCHANGED <<workerVars, op, callback, newParam, joinI, histVars>>

\* 163: end of the scope of lock
R163(c) ==
    /\ CGoto(c, "r163", "r166")
    /\ actionLock' = Free
    /\ UNCHANGED <<THREAD_COUNT, threadsSize, threadsComplete, threadsWaiting,
                   waitLock, completeLock, actionCv, waitCv, completeCv,
                   action, threadCallback, threadParam>>
    /\ UNCHANGED <<workerVars, op, callback, newParam, joinI, histVars>>

\* 166-169: _actionCv.notify_all(); std::this_thread::yield()
R166(c) ==
    /\ CGoto(c, "r166", "r172")
    /\ actionCv' = {}
    /\ UNCHANGED <<THREAD_COUNT, threadsSize, threadsComplete, threadsWaiting,
                   actionLock, waitLock, completeLock, waitCv, completeCv,
                   action, threadCallback, threadParam>>
    /\ UNCHANGED <<workerVars, op, callback, newParam, joinI, histVars>>

\* 172: _completeCv.wait(completeLock, _threadsComplete == _THREAD_COUNT)
R172(c) ==
    /\ pcc[c] = "r172"
    /\ IF CompletePred
          THEN /\ pcc' = [pcc EXCEPT ![c] = "r173"]
               /\ UNCHANGED <<completeLock, completeCv>>
          ELSE /\ pcc' = [pcc EXCEPT ![c] = "r172b"]
               /\ completeLock' = Free
               /\ completeCv' = completeCv \cup {C(c)}
    /\ UNCHANGED <<THREAD_COUNT, threadsSize, threadsComplete, threadsWaiting,
                   actionLock, waitLock, actionCv, waitCv,
                   action, threadCallback, threadParam>>
    /\ UNCHANGED <<workerVars, op, callback, newParam, joinI, histVars>>

\* 172: a woken thread takes the lock again and tests the predicate again.
R172wake(c) ==
    /\ CGoto(c, "r172b", "r172")
    /\ C(c) \notin completeCv
    /\ completeLock = Free
    /\ completeLock' = C(c)
    /\ UNCHANGED <<THREAD_COUNT, threadsSize, threadsComplete, threadsWaiting,
                   actionLock, waitLock, actionCv, waitCv, completeCv,
                   action, threadCallback, threadParam>>
    /\ UNCHANGED <<workerVars, op, callback, newParam, joinI, histVars>>

\* 173: end of the scope of completeLock
R173(c) ==
    /\ CGoto(c, "r173", "t116")
    /\ completeLock' = Free
    /\ UNCHANGED <<THREAD_COUNT, threadsSize, threadsComplete, threadsWaiting,
                   actionLock, waitLock, actionCv, waitCv, completeCv,
                   action, threadCallback, threadParam>>
    /\ UNCHANGED <<workerVars, op, callback, newParam, joinI, histVars>>

----------------------------------------------------------------------------
\* tellThreadsToIdle (176) and, inside it, resetThreadLoop (117)

\* 116: std::lock_guard lock(_actionLock)
T116(c) ==
    /\ CGoto(c, "t116", "t97")
    /\ actionLock = Free
    /\ actionLock' = C(c)
    /\ UNCHANGED <<THREAD_COUNT, threadsSize, threadsComplete, threadsWaiting,
                   waitLock, completeLock, actionCv, waitCv, completeCv,
                   action, threadCallback, threadParam>>
    /\ UNCHANGED <<workerVars, op, callback, newParam, joinI, histVars>>

\* 97: _threadsWaiting = 0
T97(c) ==
    /\ CGoto(c, "t97", "t98")
    /\ threadsWaiting' = 0
    /\ UNCHANGED <<THREAD_COUNT, threadsSize, threadsComplete,
                   actionLock, waitLock, completeLock, actionCv, waitCv,
                   completeCv, action, threadCallback, threadParam>>
    /\ UNCHANGED <<workerVars, op, callback, newParam, joinI, histVars>>

\* 98: _threadsComplete = 0
T98(c) ==
    /\ CGoto(c, "t98", "t99")
    /\ threadsComplete' = 0
    /\ UNCHANGED <<THREAD_COUNT, threadsSize, threadsWaiting,
                   actionLock, waitLock, completeLock, actionCv, waitCv,
                   completeCv, action, threadCallback, threadParam>>
    /\ UNCHANGED <<workerVars, op, callback, newParam, joinI, histVars>>

\* 99: _action = WAIT
T99(c) ==
    /\ CGoto(c, "t99", "t118")
    /\ action' = "WAIT"
    /\ UNCHANGED <<THREAD_COUNT, threadsSize, threadsComplete, threadsWaiting,
                   actionLock, waitLock, completeLock, actionCv, waitCv,
                   completeCv, threadCallback, threadParam>>
    /\ UNCHANGED <<workerVars, op, callback, newParam, joinI, histVars>>

\* 118: end of the scope of lock
T118(c) ==
    /\ CGoto(c, "t118", "t119")
    /\ actionLock' = Free
    /\ UNCHANGED <<THREAD_COUNT, threadsSize, threadsComplete, threadsWaiting,
                   waitLock, completeLock, actionCv, waitCv, completeCv,
                   action, threadCallback, threadParam>>
    /\ UNCHANGED <<workerVars, op, callback, newParam, joinI, histVars>>

\* 119, 177: _actionCv.notify_all(), then run returns to its caller
T119(c) ==
    /\ CGoto(c, "t119", "idle")
    /\ actionCv' = {}
    /\ op' = [op EXCEPT ![c] = "none"]
    /\ callback' = [callback EXCEPT ![c] = Empty]
    /\ newParam' = [newParam EXCEPT ![c] = Nullptr]
    /\ returned' = returned + 1
    /\ result' = [result EXCEPT ![c] = "returned"]
    /\ UNCHANGED <<THREAD_COUNT, threadsSize, threadsComplete, threadsWaiting,
                   actionLock, waitLock, completeLock, waitCv, completeCv,
                   action, threadCallback, threadParam>>
    /\ UNCHANGED <<workerVars, joinI, started, calls, stopsReturned, late,
                   callsAtStop>>

run(c) ==
    \/ R152(c) \/ R154(c) \/ R159(c) \/ R160(c) \/ R161(c) \/ R162(c)
    \/ R163(c) \/ R166(c) \/ R172(c) \/ R172wake(c) \/ R173(c)
    \/ T116(c) \/ T97(c) \/ T98(c) \/ T99(c) \/ T118(c) \/ T119(c)

----------------------------------------------------------------------------
\* stop

\* 186: std::lock_guard lock(_actionLock)
S186(c) ==
    /\ CGoto(c, "s186", "s187")
    /\ actionLock = Free
    /\ actionLock' = C(c)
    /\ UNCHANGED <<THREAD_COUNT, threadsSize, threadsComplete, threadsWaiting,
                   waitLock, completeLock, actionCv, waitCv, completeCv,
                   action, threadCallback, threadParam>>
    /\ UNCHANGED <<workerVars, op, callback, newParam, joinI, histVars>>

\* 187: _action = STOP
S187(c) ==
    /\ CGoto(c, "s187", "s188")
    /\ action' = "STOP"
    /\ UNCHANGED <<THREAD_COUNT, threadsSize, threadsComplete, threadsWaiting,
                   actionLock, waitLock, completeLock, actionCv, waitCv,
                   completeCv, threadCallback, threadParam>>
    /\ UNCHANGED <<workerVars, op, callback, newParam, joinI, histVars>>

\* 188: end of the scope of lock
S188(c) ==
    /\ CGoto(c, "s188", "s189")
    /\ actionLock' = Free
    /\ UNCHANGED <<THREAD_COUNT, threadsSize, threadsComplete, threadsWaiting,
                   waitLock, completeLock, actionCv, waitCv, completeCv,
                   action, threadCallback, threadParam>>
    /\ UNCHANGED <<workerVars, op, callback, newParam, joinI, histVars>>

\* 189, 192: _actionCv.notify_all(); threadid_t i = 0
S189(c) ==
    /\ CGoto(c, "s189", "s192")
    /\ actionCv' = {}
    /\ joinI' = [joinI EXCEPT ![c] = 0]
    /\ UNCHANGED <<THREAD_COUNT, threadsSize, threadsComplete, threadsWaiting,
                   actionLock, waitLock, completeLock, waitCv, completeCv,
                   action, threadCallback, threadParam>>
    /\ UNCHANGED <<workerVars, op, callback, newParam, histVars>>

\* (variant: the loop test is i <= _threads.size())
S192Inclusive(c) ==
    /\ pcc[c] = "s192"
    /\ pcc' = [pcc EXCEPT ![c] = IF joinI[c] <= threadsSize
                                   THEN "s193" ELSE "s196"]
    /\ UNCHANGED <<poolVars, workerVars, op, callback, newParam, joinI,
                   histVars>>

\* 192: i < _threads.size()
S192(c) ==
    /\ pcc[c] = "s192"
    /\ pcc' = [pcc EXCEPT ![c] = IF joinI[c] < threadsSize
                                   THEN "s193" ELSE "s196"]
    /\ UNCHANGED <<poolVars, workerVars, op, callback, newParam, joinI,
                   histVars>>

\* 193, 192: _threads[i].join() returns once thread i has ended; i++
S193(c) ==
    /\ CGoto(c, "s193", "s192")
    /\ joinI[c] \in Workers
    /\ pcw[joinI[c]] = "done"
    /\ joinI' = [joinI EXCEPT ![c] = @ + 1]
    /\ UNCHANGED <<poolVars, workerVars, op, callback, newParam, histVars>>

\* 196, 197: _threads.clear(), then stop returns to its caller
S196(c) ==
    /\ CGoto(c, "s196", "idle")
    /\ threadsSize' = 0
    /\ op' = [op EXCEPT ![c] = "none"]
    /\ joinI' = [joinI EXCEPT ![c] = 0]
    /\ stopsReturned' = stopsReturned + 1
    /\ result' = [result EXCEPT ![c] = "returned"]
    /\ UNCHANGED <<THREAD_COUNT, threadsComplete, threadsWaiting,
                   actionLock, waitLock, completeLock, actionCv, waitCv,
                   completeCv, action, threadCallback, threadParam>>
    /\ UNCHANGED <<workerVars, callback, newParam, started, returned, calls,
                   late, callsAtStop>>

stop(c) ==
    \/ S186(c) \/ S187(c) \/ S188(c) \/ S189(c)
    \/ S192(c) \/ S193(c) \/ S196(c)

----------------------------------------------------------------------------
\* A thread blocked in a condition wait may wake without a notification.
SpuriousWakeup ==
    /\ \E t \in actionCv \cup waitCv \cup completeCv :
          /\ actionCv' = actionCv \ {t}
          /\ waitCv' = waitCv \ {t}
          /\ completeCv' = completeCv \ {t}
    /\ UNCHANGED <<THREAD_COUNT, threadsSize, threadsComplete, threadsWaiting,
                   actionLock, waitLock, completeLock,
                   action, threadCallback, threadParam>>
    /\ UNCHANGED <<workerVars, coordVars, histVars>>

\* One step of the pool's own code, by a worker or inside a call.
PoolStep ==
    \/ \E w \in ThreadIds : threadAction(w)
    \/ \E c \in Coordinators :
          waitForThreadsToFinish(c) \/ run(c) \/ stop(c)
    \/ SpuriousWakeup

----------------------------------------------------------------------------
\* One coordinator that keeps the contract, as main does: run with a
\* callable, call after call, then stop once and nothing after it.
MainRun ==
    /\ started < MaxRounds
    /\ stopsReturned = 0
    /\ \A c \in Coordinators : op[c] # "stop"
    /\ \E cb \in Callbacks, p \in Params : CallRun(1, cb, p)

MainStop ==
    /\ stopsReturned = 0
    /\ CallStop(1)

Next == PoolStep \/ MainRun \/ MainStop

Spec == Init /\ [][Next]_vars

\* The scheduler runs every thread that can run, and a thread that is able
\* to take a mutex again and again gets it in the end.  No fairness for the
\* caller's decision to call, nor for spurious wakeups.
Fairness ==
    /\ \A w \in ThreadIds : SF_vars(threadAction(w))
    /\ \A c \in Coordinators :
          SF_vars(waitForThreadsToFinish(c) \/ run(c) \/ stop(c))

\* The two calls of main: run(myFunc, &inputData) and run(lambda).
MainPayloads == {<<"myFunc", "inputData">>, <<"lambda", Nullptr>>}

MainRunAsMain ==
    /\ started < MaxRounds
    /\ stopsReturned = 0
    /\ \A c \in Coordinators : op[c] # "stop"
    /\ \E pl \in MainPayloads : CallRun(1, pl[1], pl[2])

NextFair == PoolStep \/ MainRunAsMain \/ MainStop

FairSpec == Init /\ [][NextFair]_vars /\ Fairness

----------------------------------------------------------------------------
\* A second thread calls stop while a run call of the first is in progress.
OtherStop ==
    /\ op[1] = "run"
    /\ result[2] = "none"
    /\ CallStop(2)

NextTwo == PoolStep \/ MainRun \/ OtherStop

SpecTwo == Init /\ [][NextTwo]_vars

----------------------------------------------------------------------------
\* One coordinator that calls run and stop in any order, also after stop
\* has returned, and that may pass an empty std::function.
MaxStops == 2

AnyRun ==
    /\ started < MaxRounds
    /\ \E cb \in Callbacks \cup {Empty}, p \in Params : CallRun(1, cb, p)

AnyStop ==
    /\ stopsReturned < MaxStops
    /\ CallStop(1)

NextAny == PoolStep \/ AnyRun \/ AnyStop

SpecAny == Init /\ [][NextAny]_vars

----------------------------------------------------------------------------
\* Positions of run after the completion wait and before the reset of
\* _threadsComplete.
CompletionSeen == {"r173", "t116", "t97", "t98"}
\* Positions of run between publishing RUN and passing the completion wait.
RoundOpen == {"r166", "r172", "r172b"}
\* The number of the round a worker's current invocation belongs to.
RoundOf(w) == IF pcw[w] = "exec" THEN calls[w] ELSE calls[w] + 1

\* C1: whenever run returns, every worker has invoked the callback exactly
\* once during that call, _threadsComplete reached THREAD_COUNT before the
\* return, and no worker is inside the callback.
C1_RunCompletesRound ==
    /\ pcc[1] \in CompletionSeen => threadsComplete = THREAD_COUNT
    /\ pcc[1] \in CompletionSeen \cup {"t99", "t118", "t119", "idle"} =>
          \A w \in Workers : calls[w] = started /\ pcw[w] \notin InCallback
    /\ pcc[1] = "idle" => returned = started

C1_Witness ==
    /\ THREAD_COUNT >= 2
    /\ pcc[1] = "idle" /\ result[1] = "returned"
    /\ returned >= 1 /\ stopsReturned = 0
    /\ \A w \in Workers : calls[w] = returned

\* C2: after R run calls every worker has made R invocations, and the
\* invocation a worker makes during a run call uses the callback and the
\* param of that call, never the previous call's or a mix.
C2_FreshPayload ==
    /\ \A w \in Workers :
          /\ pcw[w] \in {"w229p", "w229c", "exec"} =>
                op[1] = "run" /\ wcb[w] = callback[1]
          /\ pcw[w] \in {"w229c", "exec"} => wparam[w] = newParam[1]
          /\ pcw[w] # "aborted"
    /\ pcc[1] = "idle" => \A w \in Workers : calls[w] = returned

C2_Witness ==
    \E w \in Workers :
       /\ pcw[w] = "exec" /\ calls[w] = 2 /\ returned = 1
       /\ wcb[w] = "lambda" /\ wparam[w] = Nullptr

\* C3: two run calls never overlap: a worker is inside the callback only
\* while the coordinator has published that round and has not yet seen its
\* completion, and all workers inside the callback are in the same round.
C3_RoundsDoNotOverlap ==
    \A w \in Workers :
       pcw[w] \in InCallback =>
          /\ op[1] = "run" /\ pcc[1] \in RoundOpen
          /\ RoundOf(w) = started
          /\ \A v \in Workers :
                pcw[v] \in InCallback => RoundOf(v) = RoundOf(w)

C3_Witness ==
    /\ started = 2
    /\ \E w, v \in Workers : w # v /\ pcw[w] = "exec" /\ pcw[v] = "exec"

\* C4: under fair scheduling every run call returns and the final stop call
\* returns, whatever the workers had done when the call was made.
C4_CallsReturn == (pcc[1] # "idle") ~> (pcc[1] = "idle")

C4_Witness ==
    /\ pcc[1] = "c108b"
    /\ started = 1
    /\ \A w \in Workers : pcw[w] = "w211"

\* C5: stop returns only after every worker thread has ended, and no worker
\* invokes the callback between the call of stop and its return.
C5_StopEndsWorkers ==
    /\ stopsReturned > 0 => \A w \in Workers : pcw[w] = "done"
    /\ (op[1] = "stop" \/ stopsReturned > 0) =>
          \A w \in Workers :
             calls[w] = callsAtStop[w] /\ pcw[w] \notin InCallback

C5_Witness ==
    /\ THREAD_COUNT >= 2
    /\ stopsReturned = 1 /\ returned >= 1
    /\ \A w \in Workers : pcw[w] = "done" /\ calls[w] = returned

\* C6: a stop called while another thread's run call is in flight sets STOP
\* and ends workers only after that round has completed and run has reset
\* the pool to idle.
C6_StopWaitsForRound ==
    (action = "STOP" \/ \E w \in Workers : pcw[w] = "done") =>
       (op[1] = "run" => pcc[1] \in {"t118", "t119"})

\* C7: a run call made after stop has returned does not hang on the
\* completion wait.
C7_LateRunDoesNotHang ==
    ~ /\ op[1] = "run" /\ late[1]
      /\ pcc[1] = "r172b"
      /\ \A w \in Workers : pcw[w] = "done"

\* C8: a stop call made after stop has returned ends with an error, not
\* with a normal return.
C8_SecondStopIsError ==
    (pcc[1] = "idle" /\ late[1] /\ stopsReturned >= 2) => result[1] = "error"

\* C9: run with an empty callback is rejected before any pool state
\* changes: _action stays WAIT, _threadsWaiting is not reset, and no worker
\* goes to invoke the callback.
C9_EmptyCallbackRejected ==
    (op[1] = "run" /\ ~late[1] /\ callback[1] = Empty) =>
       /\ action = "WAIT"
       /\ pcc[1] \in {"c105", "c107", "c108", "c108b", "c110", "r152",
                      "r154", "idle"}
       /\ \A w \in Workers : pcw[w] \notin InCallback \cup {"aborted"}

\* C10: _action changes only WAIT->RUN, RUN->WAIT and WAIT->STOP.
C10_ActionTransitions ==
    [][action' # action =>
          <<action, action'>> \in {<<"WAIT", "RUN">>, <<"RUN", "WAIT">>,
                                   <<"WAIT", "STOP">>}]_vars

----------------------------------------------------------------------------
\* Every worker has made the increment of line 215 and has released
\* _actionLock inside the wait of line 221.
AllParked == \A w \in Workers : pcw[w] = "w221b"

\* C11 as stated: the coordinator sets RUN or STOP only in states where
\* _threadsWaiting == THREAD_COUNT and every worker is in the wait of line 221.
C11_PublishWhenCountFull ==
    [][(action' # action /\ action' \in {"RUN", "STOP"}) =>
          (threadsWaiting = THREAD_COUNT /\ AllParked)]_vars

\* C11 amended: the coordinator sets RUN or STOP only when every worker is
\* in the wait of line 221; _threadsWaiting is THREAD_COUNT when STOP is set
\* and has already been reset to 0 (line 154) when RUN is set.
C11_PublishWhenAllParked ==
    [][(action' # action /\ action' \in {"RUN", "STOP"}) =>
          /\ AllParked
          /\ action' = "STOP" => threadsWaiting = THREAD_COUNT
          /\ action' = "RUN" => threadsWaiting = 0]_vars

C11_Witness ==
    /\ THREAD_COUNT >= 2
    /\ pcc[1] = "r163" /\ action = "RUN" /\ started = 2
    /\ threadsWaiting = 0
    /\ AllParked

----------------------------------------------------------------------------
\* Positions of a worker after the increment of line 215 and before it
\* leaves the parked phase for the callback.
PastIncrement == {"w216", "w217", "w221", "w221b", "w223", "done"}
ReParked == {w \in Workers : pcw[w] \in PastIncrement}
\* Positions of run from the reset of line 154 to the reset of line 97,
\* where the increments of the round being run are already consumed.
RoundConsumed == {"r159", "r160", "r161", "r162", "r163", "r166", "r172",
                  "r172b", "r173", "t116", "t97"}

\* C12: the resets of _threadsWaiting never erase an increment of the next
\* round: the reset of line 154 consumes exactly the THREAD_COUNT increments
\* of this round, no worker has parked again when line 97 resets, and
\* everywhere else (so at every ready barrier) _threadsWaiting is the number
\* of workers that have parked since the last reset.
C12_ResetsEraseNothing ==
    /\ pcc[1] = "r154" =>
          threadsWaiting = THREAD_COUNT /\ ReParked = Workers
    /\ pcc[1] \in {"t97", "t98"} =>
          \A w \in Workers : pcw[w] \in {"w241", "w241b"}
    /\ pcc[1] \notin RoundConsumed => threadsWaiting = Cardinality(ReParked)
    /\ pcc[1] \in {"t98", "t99"} => threadsWaiting = 0

C12_Witness ==
    /\ THREAD_COUNT >= 2
    /\ pcc[1] = "c108" /\ started = 2
    /\ threadsWaiting = 1
    /\ \E w \in Workers : pcw[w] \in {"w241", "w241b", "w242"}

----------------------------------------------------------------------------
\* The locks of the pool a thread holds.
Held(t) ==
    (IF actionLock = t THEN {"actionLock"} ELSE {})
       \cup (IF waitLock = t THEN {"waitLock"} ELSE {})
       \cup (IF completeLock = t THEN {"completeLock"} ELSE {})

\* C13: a worker holds none of the three locks while it is between loading
\* the callback and returning from it, so all workers can be inside the
\* callback at once (C13_Witness).
C13_CallbackWithoutLocks ==
    \A w \in Workers : pcw[w] \in InCallback => Held(W(w)) = {}

C13_Witness ==
    /\ THREAD_COUNT >= 2
    /\ \A w \in Workers : pcw[w] = "exec" /\ Held(W(w)) = {}

----------------------------------------------------------------------------
\* The phase of the worker loop a position belongs to: parked from the top
\* of the loop to the test of line 223, executing from the call of line 229
\* to the increment of line 237, waiting for idle from there to the end of
\* the loop body.
Phase(w) ==
    CASE pcw[w] \in {"w211", "w214", "w215", "w216", "w217", "w221",
                     "w221b", "w223"} -> "PARKED"
      [] pcw[w] \in {"w229", "w229p", "w229c", "exec", "w233", "w236",
                     "w237"} -> "EXECUTING"
      [] pcw[w] \in {"w238", "w239", "w241", "w241b", "w242"}
            -> "WAITING_FOR_IDLE"
      [] pcw[w] = "done" -> "TERMINATED"
      [] OTHER -> "NONE"

\* C14: every worker starts parked and changes phase only parked ->
\* executing when _action is RUN, executing -> waiting for idle with the
\* increment of _threadsComplete, waiting for idle -> parked when _action is
\* WAIT, and parked -> terminated when _action is STOP.
C14_WorkerPhases ==
    /\ \A w \in Workers : Phase(w) = "PARKED"
    /\ [][\A w \in Workers :
            Phase(w)' # Phase(w) =>
               \/ /\ Phase(w) = "PARKED" /\ Phase(w)' = "EXECUTING"
                  /\ action = "RUN"
               \/ /\ Phase(w) = "EXECUTING" /\ Phase(w)' = "WAITING_FOR_IDLE"
                  /\ threadsComplete' = threadsComplete + 1
               \/ /\ Phase(w) = "WAITING_FOR_IDLE" /\ Phase(w)' = "PARKED"
                  /\ action = "WAIT"
               \/ /\ Phase(w) = "PARKED" /\ Phase(w)' = "TERMINATED"
                  /\ action = "STOP"]_vars

C14_Witness ==
    /\ THREAD_COUNT >= 2
    /\ \E w, v \in Workers :
          /\ Phase(w) = "TERMINATED" /\ calls[w] = 2
          /\ Phase(v) = "PARKED" /\ calls[v] = 2

----------------------------------------------------------------------------
\* Positions of a worker from having seen a command (line 221 passed) to
\* the return of the callback: the worker is about to read, or has read,
\* _threadCallback and _threadParam outside _actionLock.
ReadsPayload == {"w223"} \cup InCallback
\* Positions of run at the two stores of lines 160 and 161.
WritesPayload == {"r160", "r161"}

\* C15: run stores the payload only in states where no worker is inside the
\* callback or between seeing RUN and loading the payload: a store of lines
\* 160-161 is never concurrent with a load of line 229.
C15_PayloadWriteExclusive ==
    \A c \in Coordinators :
       pcc[c] \in WritesPayload =>
          \A w \in Workers : pcw[w] \notin ReadsPayload

C15_Witness ==
    /\ THREAD_COUNT >= 2
    /\ pcc[1] = "r161" /\ started = 2
    /\ threadCallback = callback[1] /\ threadParam # newParam[1]
    /\ \A w \in Workers : calls[w] = 1 /\ pcw[w] = "w221b"

----------------------------------------------------------------------------
\* C16: a thread that enters or is blocked in a condition wait holds no lock
\* of another lock/condition pair: at the wait it holds exactly the lock of
\* the pair, and once blocked it holds none.
C16_WaitWithOwnLockOnly ==
    /\ \A w \in Workers :
          /\ pcw[w] \in {"w221", "w241"} => Held(W(w)) = {"actionLock"}
          /\ pcw[w] \in {"w221b", "w241b"} => Held(W(w)) = {}
    /\ \A c \in Coordinators :
          /\ pcc[c] = "c108" => Held(C(c)) = {"waitLock"}
          /\ pcc[c] = "r172" => Held(C(c)) = {"completeLock"}
          /\ pcc[c] \in {"c108b", "r172b"} => Held(C(c)) = {}

C16_Witness ==
    /\ THREAD_COUNT >= 2
    /\ pcc[1] = "r172b" /\ C(1) \in completeCv
    /\ \E w, v \in Workers :
          /\ pcw[w] = "w241b" /\ W(w) \in actionCv
          /\ pcw[v] = "exec"

----------------------------------------------------------------------------
\* The coordinator owns _completeLock and is at the acquisition of
\* _actionLock of line 159, which another thread owns.
CoordWantsActionLock(c) ==
    /\ pcc[c] = "r159"
    /\ completeLock = C(c)
    /\ actionLock # Free
\* A worker owns _actionLock and is at the acquisition of _completeLock of
\* line 236, which another thread owns.
WorkerWantsCompleteLock(w) ==
    /\ pcw[w] = "w236"
    /\ actionLock = W(w)
    /\ completeLock # Free

\* C17: the opposite acquisition orders of run (completeLock, then
\* actionLock) and of a worker reporting completion (actionLock, then
\* completeLock) never meet: while run is between lines 152 and 163 no
\* worker is between lines 233 and 238, so there is no circular wait.
C17_NoCircularWait ==
    \A c \in Coordinators :
       /\ ~ (CoordWantsActionLock(c) /\
             \E w \in Workers : WorkerWantsCompleteLock(w))
       /\ pcc[c] \in {"r154", "r159", "r160", "r161", "r162", "r163"} =>
             \A w \in Workers : pcw[w] \notin {"w233", "w236", "w237", "w238"}

C17_Witness ==
    /\ THREAD_COUNT >= 2
    /\ CoordWantsActionLock(1)
    /\ started = 2
    /\ \E w \in Workers : actionLock = W(w) /\ pcw[w] = "w221"

----------------------------------------------------------------------------
\* Workers that have made the increment of line 237 and have not yet left
\* the loop body.
Reported ==
    {w \in Workers : pcw[w] \in {"w238", "w239", "w241", "w241b", "w242"}}

\* C18 as stated: both counters stay within 0..THREAD_COUNT, and whenever
\* _action is RUN, _threadsWaiting is 0 and _threadsComplete is the number
\* of workers that have returned from this round's callback and counted it.
C18_CountersWhileRun ==
    /\ threadsWaiting \in 0 .. THREAD_COUNT
    /\ threadsComplete \in 0 .. THREAD_COUNT
    /\ action = "RUN" =>
          /\ threadsWaiting = 0
          /\ threadsComplete = Cardinality(Reported)
          /\ \A w \in Reported : calls[w] = started

\* C18 amended: as stated, except between lines 98 and 99, where
\* resetThreadLoop has already zeroed _threadsComplete while _action is
\* still RUN.
C18_CountersUntilReset ==
    /\ threadsWaiting \in 0 .. THREAD_COUNT
    /\ threadsComplete \in 0 .. THREAD_COUNT
    /\ action = "RUN" =>
          /\ threadsWaiting = 0
          /\ \A w \in Reported : calls[w] = started
          /\ IF pcc[1] = "t99"
                THEN threadsComplete = 0 /\ Reported = Workers
                ELSE threadsComplete = Cardinality(Reported)

C18_Witness ==
    /\ THREAD_COUNT >= 2
    /\ action = "RUN" /\ started = 2
    /\ threadsComplete = 1 /\ threadsWaiting = 0
    /\ \E w, v \in Workers : w \in Reported /\ pcw[v] = "exec"

----------------------------------------------------------------------------
\* The same coordinator as in Spec, with pools of no thread as well.
InitFromZero == \E n \in 0 .. MaxThreads : Pooler(n)

SpecFromZero == InitFromZero /\ [][Next]_vars

\* Positions where a coordinator has found a wait predicate false, is
\* blocked in a wait, or is in join.
CoordBlocks == {"c108", "c108b", "r172b", "s193"}

\* C19: a pool of no thread is a no-op pool: run and stop never block, no
\* callback is invoked, both counters stay 0, and run leaves _action WAIT.
C19_EmptyPoolIsNoOp ==
    THREAD_COUNT = 0 =>
       /\ pcc[1] \notin CoordBlocks
       /\ pcc[1] \in {"r159", "t116", "s186"} => actionLock = Free
       /\ pcc[1] = "c105" => waitLock = Free
       /\ pcc[1] = "r152" => completeLock = Free
       /\ threadsWaiting = 0 /\ threadsComplete = 0
       /\ \A w \in ThreadIds : calls[w] = 0 /\ pcw[w] = "none"
       /\ (pcc[1] = "idle" /\ op[1] = "none" /\ stopsReturned = 0) =>
             action = "WAIT"

C19_Witness ==
    /\ THREAD_COUNT = 0
    /\ returned = 2 /\ stopsReturned = 1
    /\ pcc[1] = "idle" /\ result[1] = "returned"

====
